---- MODULE Spec2Model ----
(***************************************************************************)
(* B-Roll Library (src/app.py): the semantic query expansion, the          *)
(* relevance scorer, the provider adapters and the search aggregator.      *)
(*                                                                         *)
(* Text is modelled by TLA+ strings, read character by character through   *)
(* Len, SubSeq and \o.  A relevance score is the exact rational            *)
(* [num, den] of the sum the code accumulates in a float.                  *)
(***************************************************************************)
EXTENDS Integers, Sequences, FiniteSets, TLC

\* ------------------------------------------------------------------ text

UpperChars == "ABCDEFGHIJKLMNOPQRSTUVWXYZ"

LowerChars == "abcdefghijklmnopqrstuvwxyz"

DigitChars == "0123456789_"

CharsOf(s) == { SubSeq(s, i, i) : i \in 1..Len(s) }

UpperSet == CharsOf(UpperChars)

LowerSet == CharsOf(LowerChars)

\* the characters of the regular expression class \w
WordSet == UpperSet \cup LowerSet \cup CharsOf(DigitChars)

\* the place of character c in the alphabet s
PlaceIn(s, c) == CHOOSE k \in 1..Len(s) : SubSeq(s, k, k) = c

\* str.lower() of one character
LowerChar(c) ==
  IF c \in UpperSet
    THEN LET i == PlaceIn(UpperChars, c) IN SubSeq(LowerChars, i, i)
    ELSE c

UpperChar(c) ==
  IF c \in LowerSet
    THEN LET i == PlaceIn(LowerChars, c) IN SubSeq(UpperChars, i, i)
    ELSE c

IsCased(c) == c \in UpperSet \/ c \in LowerSet

IsWordChar(c) == c \in WordSet

\* f[lo] \o ... \o f[hi], by halves
RECURSIVE CatRange(_, _, _)
CatRange(f, lo, hi) ==
  IF lo > hi THEN ""
  ELSE IF lo = hi THEN f[lo]
  ELSE LET mid == (lo + hi) \div 2
       IN  CatRange(f, lo, mid) \o CatRange(f, mid + 1, hi)

\* str.lower()
Lower(s) ==
  CatRange([i \in 1..Len(s) |-> LowerChar(SubSeq(s, i, i))], 1, Len(s))

\* str.title(): a cased character is upper-cased when the character before
\* it is not cased, and lower-cased otherwise
Title(s) ==
  CatRange([i \in 1..Len(s) |->
              IF i > 1 /\ IsCased(SubSeq(s, i - 1, i - 1))
                THEN LowerChar(SubSeq(s, i, i))
                ELSE UpperChar(SubSeq(s, i, i))], 1, Len(s))

\* needle in haystack (Python's substring test)
Contains(haystack, needle) ==
  \E i \in 0..(Len(haystack) - Len(needle)) :
     SubSeq(haystack, i + 1, i + Len(needle)) = needle

\* the n-th smallest element of a set of integers
Nth(S, n) == CHOOSE t \in S : Cardinality({ u \in S : u < t }) = n - 1

\* the words that begin at `starts` and end at `ends`, in order
WordsBetween(s, starts, ends) ==
  [n \in 1..Cardinality(starts) |-> SubSeq(s, Nth(starts, n), Nth(ends, n))]

IsWordAt(s, i) == i >= 1 /\ i <= Len(s) /\ IsWordChar(SubSeq(s, i, i))

\* re.findall(r'\b\w+\b', s): the maximal runs of word characters, in order
FindWords(s) ==
  WordsBetween(s, { i \in 1..Len(s) : IsWordAt(s, i) /\ ~IsWordAt(s, i - 1) },
                  { i \in 1..Len(s) : IsWordAt(s, i) /\ ~IsWordAt(s, i + 1) })

\* ' '.join(seq)
RECURSIVE Join(_)
Join(seq) ==
  IF seq = <<>> THEN ""
  ELSE IF Len(seq) = 1 THEN seq[1]
  ELSE seq[1] \o " " \o Join(Tail(seq))

Range(seq) == { seq[i] : i \in 1..Len(seq) }

\* s[:n] of a list
Take(seq, n) == SubSeq(seq, 1, IF Len(seq) < n THEN Len(seq) ELSE n)

RECURSIVE Flatten(_)
Flatten(seqs) == IF seqs = <<>> THEN <<>> ELSE seqs[1] \o Flatten(Tail(seqs))

\* ------------------------------------------------ SemanticSearchEngine

semantic_mappings ==
  << [main_term |-> "business", related_terms |->
        <<"corporate", "office", "meeting", "professional", "work",
          "conference", "presentation", "team", "finance", "startup">>],
     [main_term |-> "technology", related_terms |->
        <<"tech", "digital", "computer", "software", "AI", "coding",
          "programming", "innovation", "gadgets", "electronics">>],
     [main_term |-> "nature", related_terms |->
        <<"outdoor", "forest", "trees", "mountains", "water", "landscape",
          "wildlife", "green", "natural", "environment">>],
     [main_term |-> "city", related_terms |->
        <<"urban", "buildings", "skyline", "street", "traffic",
          "architecture", "downtown", "metropolitan", "cityscape">>],
     [main_term |-> "people", related_terms |->
        <<"human", "person", "crowd", "family", "friends", "social",
          "community", "lifestyle", "portrait">>],
     [main_term |-> "food", related_terms |->
        <<"cooking", "restaurant", "kitchen", "dining", "meal", "culinary",
          "recipe", "chef", "eating">>],
     [main_term |-> "travel", related_terms |->
        <<"vacation", "tourism", "journey", "adventure", "destination",
          "explore", "trip", "wanderlust">>],
     [main_term |-> "sports", related_terms |->
        <<"fitness", "exercise", "athletic", "training", "competition",
          "gym", "workout", "activity">>],
     [main_term |-> "music", related_terms |->
        <<"sound", "audio", "concert", "performance", "instruments",
          "rhythm", "melody", "dance">>],
     [main_term |-> "art", related_terms |->
        <<"creative", "design", "painting", "drawing", "artistic",
          "gallery", "visual", "aesthetic">> ] >>

\* self.semantic_mappings[keyword], <<>> when keyword is no key
MappingOf(keyword) ==
  Flatten([i \in 1..Len(semantic_mappings) |->
             IF semantic_mappings[i].main_term = keyword
               THEN semantic_mappings[i].related_terms ELSE <<>>])

IsMainTerm(keyword) ==
  \E i \in 1..Len(semantic_mappings) : semantic_mappings[i].main_term = keyword

\* self.reverse_mappings[term]: the main terms whose list holds term, in the
\* order of the mapping; <<>> when term is no key
reverse_mappings(term) ==
  Flatten([i \in 1..Len(semantic_mappings) |->
             IF term \in Range(semantic_mappings[i].related_terms)
               THEN <<semantic_mappings[i].main_term>> ELSE <<>>])

stop_words ==
  {"the", "a", "an", "and", "or", "but", "in", "on", "at", "to", "for",
   "of", "with", "by"}

\* the words lower-cased one by one
LowerEach(words) == [i \in 1..Len(words) |-> Lower(words[i])]

\* as extract_keywords, the words lower-cased after the stop words are dropped
extract_keywords_LowerAfterFilter(query) ==
  LowerEach(SelectSeq(FindWords(query),
                      LAMBDA word : word \notin stop_words /\ Len(word) > 2))

\* as extract_keywords, the query split without being lower-cased
extract_keywords_NoLower(query) ==
  SelectSeq(FindWords(query),
            LAMBDA word : word \notin stop_words /\ Len(word) > 2)

extract_keywords(query) ==
  SelectSeq(FindWords(Lower(query)),
            LAMBDA word : word \notin stop_words /\ Len(word) > 2)

\* Every term a set built by expand_keywords can hold: the related terms of
\* the mapping, then its main terms.
Vocabulary ==
  Flatten([i \in 1..Len(semantic_mappings) |-> semantic_mappings[i].related_terms])
    \o [i \in 1..Len(semantic_mappings) |-> semantic_mappings[i].main_term]

\* The place of a term in the iteration order of a Python set of strings.
\* That order follows the strings' hashes, which are drawn anew for every
\* process (hash randomisation) and stay fixed inside one.  seed names the
\* process's draw; each seed gives one total order of the vocabulary.
HashRank(term, seed) ==
  LET i == CHOOSE k \in 1..Len(Vocabulary) : Vocabulary[k] = term
  IN  (i * (1 + 52 * (seed - 1))) % 107

\* list(set(items)): the distinct elements, in the set's iteration order
RECURSIVE SetOrder(_, _)
SetOrder(S, seed) ==
  IF S = {} THEN <<>>
  ELSE LET first == CHOOSE t \in S :
                      \A u \in S : HashRank(t, seed) <= HashRank(u, seed)
       IN  <<first>> \o SetOrder(S \ {first}, seed)

\* as list_set, the list left as it is
list_set_KeepAll(items, seed) == items

list_set(items, seed) == SetOrder(Range(items), seed)

\* as expand_keywords, the categories found through the reverse mapping not
\* expanded into their related terms
expand_keywords_DirectOnly(keywords, seed) ==
  [original |-> keywords,
   semantic |->
     list_set(Flatten([i \in 1..Len(keywords) |->
                         IF IsMainTerm(keywords[i]) THEN MappingOf(keywords[i])
                                                    ELSE <<>>]), seed),
   related |->
     list_set(Flatten([i \in 1..Len(keywords) |-> reverse_mappings(keywords[i])]),
              seed)]

expand_keywords(keywords, seed) ==
  LET semantic ==
        Flatten([i \in 1..Len(keywords) |->
          (IF IsMainTerm(keywords[i]) THEN MappingOf(keywords[i]) ELSE <<>>)
          \o Flatten([j \in 1..Len(reverse_mappings(keywords[i])) |->
                        MappingOf(reverse_mappings(keywords[i])[j])])])
      related ==
        Flatten([i \in 1..Len(keywords) |-> reverse_mappings(keywords[i])])
  IN  [original |-> keywords,
       semantic |-> list_set(semantic, seed),
       related  |-> list_set(related, seed)]

\* ------------------------------------------------------ relevance score

RECURSIVE GCD(_, _)
GCD(a, b) == IF b = 0 THEN a ELSE GCD(b, a % b)

\* the rational n/d in lowest terms, d > 0
Rat(n, d) == LET g == GCD(n, d) IN
  IF n = 0 THEN [num |-> 0, den |-> 1] ELSE [num |-> n \div g, den |-> d \div g]

RatAdd(x, y) == Rat(x.num * y.den + y.num * x.den, x.den * y.den)

RatLess(x, y) == x.num * y.den < y.num * x.den

RECURSIVE RatSum(_)
RatSum(seq) ==
  IF seq = <<>> THEN Rat(0, 1) ELSE RatAdd(seq[1], RatSum(Tail(seq)))

\* difflib.SequenceMatcher: the length of the common run of a from i and of
\* b from j, inside a[..ahi] and b[..bhi]
RECURSIVE MatchRun(_, _, _, _, _, _)
MatchRun(a, b, i, j, ahi, bhi) ==
  IF i <= ahi /\ j <= bhi /\ SubSeq(a, i, i) = SubSeq(b, j, j)
    THEN 1 + MatchRun(a, b, i + 1, j + 1, ahi, bhi)
    ELSE 0

\* block r = <<size, i, j>> is longer than u, or as long and earlier in a,
\* or as long, at the same place in a and no later in b
BlockBefore(r, u) ==
  \/ r[1] > u[1]
  \/ r[1] = u[1] /\ r[2] < u[2]
  \/ r[1] = u[1] /\ r[2] = u[2] /\ r[3] <= u[3]

BestBlock(runs) ==
  LET r == CHOOSE t \in runs : \A u \in runs : BlockBefore(t, u)
  IN  [i |-> r[2], j |-> r[3], size |-> r[1]]

\* SequenceMatcher.find_longest_match over a[alo..ahi], b[blo..bhi]: the
\* longest matching block, the earliest in a, and of those the earliest in
\* b; (alo, blo, 0) when no character matches
find_longest_match(a, b, alo, ahi, blo, bhi) ==
  BestBlock({ <<MatchRun(a, b, i, j, ahi, bhi), i, j>> :
                i \in alo..ahi, j \in blo..bhi })

\* the number of matched characters: the longest block, then the same to
\* its left and to its right (SequenceMatcher.get_matching_blocks)
RECURSIVE Matches(_, _, _, _, _, _)
RECURSIVE MatchesAround(_, _, _, _, _, _, _)
MatchesAround(a, b, alo, ahi, blo, bhi, m) ==
  IF m.size = 0 THEN 0
  ELSE m.size
       + Matches(a, b, alo, m.i - 1, blo, m.j - 1)
       + Matches(a, b, m.i + m.size, ahi, m.j + m.size, bhi)

Matches(a, b, alo, ahi, blo, bhi) ==
  IF alo > ahi \/ blo > bhi THEN 0
  ELSE MatchesAround(a, b, alo, ahi, blo, bhi,
                     find_longest_match(a, b, alo, ahi, blo, bhi))

\* SequenceMatcher(None, a, b).ratio() = 2.0 * M / T, as the pair M, T
ratio(a, b) ==
  [m |-> Matches(a, b, 1, Len(a), 1, Len(b)), t |-> Len(a) + Len(b)]

\* similarity > 0.8 and similarity < 1.0
InFuzzyBand(r) == 10 * r.m > 4 * r.t /\ 2 * r.m < r.t

\* 2 * min(|a|, |b|) / T bounds the ratio from above (real_quick_ratio), so
\* a pair of words failing it is not compared character by character
IsFuzzyMatch(a, b) ==
  /\ 10 * (IF Len(a) < Len(b) THEN Len(a) ELSE Len(b)) > 4 * (Len(a) + Len(b))
  /\ InFuzzyBand(ratio(a, b))

\* similarity * 5
Points(r) == Rat(10 * r.m, r.t)

FuzzyPoints(a, b) == Points(ratio(a, b))

\* as CountIn, a keyword counted only where it is a whole word of the content
CountIn_WholeWords(seq, content) ==
  Cardinality({ i \in 1..Len(seq) : seq[i] \in Range(FindWords(content)) })

CountIn(seq, content) ==
  Cardinality({ i \in 1..Len(seq) : Contains(content, seq[i]) })

\* scores['fuzzy'] over the query words and the words of the content
fuzzy_score(original, all_words) ==
  RatSum(Flatten(
    [q \in 1..Len(original) |->
       Flatten([w \in 1..Len(all_words) |->
         IF IsFuzzyMatch(original[q], all_words[w])
           THEN <<FuzzyPoints(original[q], all_words[w])>>
           ELSE <<>>])]))

\* as score_of, the fuzzy points counted with the keyword bucket when the
\* match type is chosen
score_of_FuzzyAsKeyword(direct, keyword, semantic, fuzzy) ==
  [score |-> RatAdd(Rat(direct + keyword + semantic, 1), fuzzy),
   match_type |-> IF direct > 0 THEN "direct"
                  ELSE IF RatLess(Rat(semantic, 1), RatAdd(Rat(keyword, 1), fuzzy))
                         THEN "keyword"
                  ELSE "semantic",
   direct |-> direct, keyword |-> keyword, semantic |-> semantic,
   fuzzy |-> fuzzy]

\* total_score and match_type from the four buckets
score_of(direct, keyword, semantic, fuzzy) ==
  [score |-> RatAdd(Rat(direct + keyword + semantic, 1), fuzzy),
   match_type |-> IF direct > 0 THEN "direct"
                  ELSE IF keyword > semantic THEN "keyword"
                  ELSE "semantic",
   direct |-> direct, keyword |-> keyword, semantic |-> semantic,
   fuzzy |-> fuzzy]

\* the four buckets of calculate_match_score, given its `content`
content_score(content, query_keywords, original_query) ==
  score_of(IF Contains(content, Lower(original_query)) THEN 100 ELSE 0,
           20 * CountIn(query_keywords.original, content),
           10 * CountIn(query_keywords.semantic, content)
             + 15 * CountIn(query_keywords.related, content),
           fuzzy_score(query_keywords.original, FindWords(content)))

\* as calculate_match_score, title and description not lower-cased
calculate_match_score_CaseSensitive(result, query_keywords, original_query) ==
  content_score(result.title \o " " \o result.description,
                query_keywords, original_query)

calculate_match_score(result, query_keywords, original_query) ==
  content_score(Lower(result.title) \o " " \o Lower(result.description),
                query_keywords, original_query)

\* ------------------------------------------------------------ BRollLibrary

\* Python's None where the code expects a string: title.lower() or
\* description.lower() on it raises AttributeError.  No text of the model
\* holds the characters < and >.
None == "<None>"

\* A candidate item.  origin is the item's identity: the provider that made
\* the dict and its place in that provider's output; the code never reads it.
Item(title, description, source_type, source_name, provider, index) ==
  [title |-> title, description |-> description,
   source_type |-> source_type, source_name |-> source_name,
   origin |-> <<provider, index>>]

\* calculate_match_score raises on an item whose title or description is None
ScoringRaises(results) ==
  \E i \in 1..Len(results) :
     results[i].title = None \/ results[i].description = None

\* as enhanced_terms, every semantic term taken
enhanced_terms_AllSemantic(keywords, expanded_keywords) ==
  keywords \o expanded_keywords.semantic \o Take(expanded_keywords.related, 2)

\* enhanced_terms: the keywords, the first 3 semantic and 2 related terms
enhanced_terms(keywords, expanded_keywords) ==
  keywords \o Take(expanded_keywords.semantic, 3)
           \o Take(expanded_keywords.related, 2)

enhance_keywords(keywords, seed) ==
  Join(enhanced_terms(keywords, expand_keywords(keywords, seed)))

enhance_query_for_search(original_query, seed) ==
  enhance_keywords(extract_keywords(original_query), seed)

match_type_priority(match_type) ==
  CASE match_type = "direct" -> 0
    [] match_type = "keyword" -> 1
    [] match_type = "semantic" -> 2
    [] OTHER -> 3

\* as KeyBefore, the key without the match-type priority
KeyBefore_ScoreOnly(x, y) == RatLess(y.relevance_score, x.relevance_score)

\* the sort key (-score, priority) of x orders it strictly before that of y
KeyBefore(x, y) ==
  \/ RatLess(y.relevance_score, x.relevance_score)
  \/ /\ x.relevance_score = y.relevance_score
     /\ match_type_priority(x.match_type) < match_type_priority(y.match_type)

\* as InsertSorted, an element going in front of the elements of equal key
RECURSIVE InsertSorted_Unstable(_, _)
InsertSorted_Unstable(sorted, x) ==
  IF sorted = <<>> THEN <<x>>
  ELSE IF ~KeyBefore(sorted[1], x) THEN <<x>> \o sorted
  ELSE <<sorted[1]>> \o InsertSorted_Unstable(Tail(sorted), x)

\* list.sort(key=...): stable, so an element goes behind every element
\* already placed that its key does not strictly precede
RECURSIVE InsertSorted(_, _)
InsertSorted(sorted, x) ==
  IF sorted = <<>> THEN <<x>>
  ELSE IF KeyBefore(x, sorted[1]) THEN <<x>> \o sorted
  ELSE <<sorted[1]>> \o InsertSorted(Tail(sorted), x)

RECURSIVE SortByKey(_, _)
SortByKey(done, rest) ==
  IF rest = <<>> THEN done
  ELSE SortByKey(InsertSorted(done, rest[1]), Tail(rest))

pexels_video_types ==
  <<"4K Professional", "HD Cinematic", "Ultra HD", "Professional Stock",
    "Premium Quality">>

search_pexels_mock(query) ==
  [k \in 1..2 |->
     LET video_type == pexels_video_types[((k - 1) % Len(pexels_video_types)) + 1]
     IN  Item("Pexels: " \o Title(query) \o " " \o video_type,
              "Professional " \o query \o " stock footage from Pexels - "
                 \o Lower(video_type) \o " quality",
              "my_sources", "Pexels", "pexels", k)]

search_playphrase_mock(query) ==
  << Item("Movie Clip: \"" \o query \o "\"",
          "Movie and TV clips containing phrases related to \"" \o query
             \o "\" - perfect for social media content",
          "my_sources", "PlayPhrase.me", "playphrase", 1) >>

search_clipcafe_mock(query) ==
  << Item("TV/Movie Scene: " \o Title(query),
          "Curated movie and TV show clips related to " \o query
             \o " - trending content for creators",
          "my_sources", "Clip.cafe", "clip_cafe", 1) >>

search_yarn_mock(query) ==
  << Item("Yarn: \"" \o query \o "\" Quote Collection",
          "Movie and TV quotes containing \"" \o query
             \o "\" perfect for viral social media content and memes",
          "my_sources", "Yarn.co", "yarn", 1) >>

youtube_video_types ==
  << <<"Professional B-Roll Footage - 4K Stock Video",
       "High-quality footage perfect for commercial use">>,
     <<"Free Video Background - No Copyright",
       "No copyright background video for content creators">>,
     <<"Cinematic B-Roll Collection",
       "Beautiful cinematic footage for your projects">>,
     <<"Stock Video Compilation", "Multiple high-quality stock video clips">>,
     <<"4K Nature Footage", "Stunning nature scenes in ultra high definition">>,
     <<"Urban City B-Roll", "Modern city scenes and architecture">>,
     <<"Business Meeting Stock Video", "Professional business scenarios">>,
     <<"Technology B-Roll Pack", "Modern tech and digital content">>,
     <<"Lifestyle Stock Footage", "Everyday life and lifestyle content">>,
     <<"Creative B-Roll Bundle", "Artistic and creative video content">> >>

search_youtube_mock(query, max_results) ==
  [k \in 1..(IF max_results < Len(youtube_video_types)
               THEN max_results ELSE Len(youtube_video_types)) |->
     LET template == youtube_video_types[((k - 1) % Len(youtube_video_types)) + 1]
     IN  Item(Title(query) \o " " \o template[1],
              Title(query) \o " " \o Lower(template[2]),
              "youtube", "", "youtube", k)]

curated_web_sources ==
  << <<"Pexels Videos", "Free stock videos from Pexels">>,
     <<"Coverr", "Beautiful stock video footage">>,
     <<"Mixkit", "Free video clips and music">>,
     <<"Pixabay Videos", "Royalty-free video content">>,
     <<"Videvo", "Free stock video footage">> >>

search_curated_web_sources(query, max_results) ==
  [k \in 1..(IF max_results < Len(curated_web_sources)
               THEN max_results ELSE Len(curated_web_sources)) |->
     Item(Title(query) \o " - " \o curated_web_sources[k][1],
          "High-quality " \o query \o " video content from "
             \o curated_web_sources[k][1] \o ". " \o curated_web_sources[k][2],
          "web", "", "web", k)]

\* dict.get(key, default) on a payload field: Absent stands for a missing key
Absent == "<absent>"

GetOr(value, default) == IF value = Absent THEN default ELSE value

\* The body of search_pexels past the key test.  response is what
\* requests.get(..., timeout=10) gave: kind "ok" (status 200 and a JSON
\* object with `videos` entries), "status" (another status code), "error"
\* (the request or response.json() raised) or "timeout".
search_pexels(query, response) ==
  IF response.kind = "ok"
    THEN [k \in 1..(IF response.videos < 5 THEN response.videos ELSE 5) |->
            Item("Pexels: " \o Title(query) \o " Video",
                 "High-quality " \o query \o " footage from Pexels",
                 "my_sources", "Pexels", "pexels", k)]
    ELSE search_pexels_mock(query)

\* as my_sources_of, nothing taken from Pexels when the key is missing
my_sources_of_NoMock(enhanced_query, api_key, response) ==
  (IF api_key THEN search_pexels(enhanced_query, response) ELSE <<>>)
  \o search_playphrase_mock(enhanced_query)
  \o search_clipcafe_mock(enhanced_query)
  \o search_yarn_mock(enhanced_query)

\* all_results of search_my_sources before its sort, given enhanced_query
my_sources_of(enhanced_query, api_key, response) ==
  (IF api_key THEN search_pexels(enhanced_query, response)
              ELSE search_pexels_mock(enhanced_query))
  \o search_playphrase_mock(enhanced_query)
  \o search_clipcafe_mock(enhanced_query)
  \o search_yarn_mock(enhanced_query)

\* as my_sources_results, the providers called with the query as typed
my_sources_results_OriginalQuery(query, seed, api_key, response) ==
  my_sources_of(query, api_key, response)

my_sources_results(query, seed, api_key, response) ==
  my_sources_of(enhance_query_for_search(query, seed), api_key, response)

\* snippet['description'][:200] + '...' when longer than 200
Snippet200(description) ==
  IF description # None /\ Len(description) > 200
    THEN SubSeq(description, 1, 200) \o "..." ELSE description

\* The items search_youtube builds from search_response['items'].  An entry
\* whose wellformed is FALSE lacks a key the loop indexes (KeyError).
youtube_live_results(response) ==
  [k \in 1..Len(response.items) |->
     Item(response.items[k].title, Snippet200(response.items[k].description),
          "youtube", "", "youtube", k)]

\* TRUE when the try block of search_youtube raises: the API call failed, an
\* entry is malformed, or scoring the built items raised
youtube_try_raises(response) ==
  \/ response.kind # "ok"
  \/ \E k \in 1..Len(response.items) : ~response.items[k].wellformed
  \/ ScoringRaises(youtube_live_results(response))

\* the list search_youtube hands to sort_results_by_relevance
youtube_results(query, seed, service, response, max_results) ==
  LET enhanced_query == enhance_query_for_search(query, seed)
  IN  IF ~service \/ youtube_try_raises(response)
        THEN search_youtube_mock(enhanced_query, max_results)
        ELSE youtube_live_results(response)

\* search_google_cse past the key test: [] unless the status is 200
search_google_cse(query, response) ==
  IF response.kind = "ok"
    THEN [k \in 1..Len(response.items) |->
            Item(Title(query) \o " - "
                    \o GetOr(response.items[k].title, "Video Content"),
                 GetOr(response.items[k].snippet,
                       "High-quality " \o query \o " video content from web search"),
                 "web", "", "web", k)]
    ELSE <<>>

\* `if cse_results:` else the curated sources
cse_or_curated(cse_results, curated) ==
  IF cse_results # <<>> THEN cse_results ELSE curated

web_of(enhanced_query, credentials, response, max_results) ==
  cse_or_curated(IF credentials THEN search_google_cse(enhanced_query, response)
                                ELSE <<>>,
                 search_curated_web_sources(enhanced_query, max_results))

\* the list search_web_sources hands to sort_results_by_relevance
web_results(query, seed, credentials, response, max_results) ==
  web_of(enhance_query_for_search(query, seed), credentials, response,
         max_results)

\* ---------------------------------------------------------------- inputs

\* PYTHONHASHSEED values told apart: the order list(set(...)) gives is fixed
\* inside one process and differs between processes
NumHashSeeds == 2

HashSeeds == 1..NumHashSeeds

\* most `videos` entries a Pexels answer carries
MaxVideos == 2

\* the non-empty texts typed into the search box
Queries == {"The Forest"}

\* max_results defaults of search_youtube and search_web_sources
youtube_max_results == 20

web_max_results == 20

Response(kind, videos, items) == [kind |-> kind, videos |-> videos, items |-> items]

\* no network call was made
NoResponse == Response("none", 0, <<>>)

Entry(title, description, wellformed) ==
  [title |-> title, description |-> description, wellformed |-> wellformed]

\* answers to requests.get(pexels url, timeout=10)
PexelsResponses ==
  { Response("ok", n, <<>>) : n \in 0..MaxVideos }
    \cup { Response("status", 0, <<>>), Response("error", 0, <<>>) }

CSEEntry(title, snippet) == [title |-> title, snippet |-> snippet]

\* answers to youtube_service.search().list(...).execute()
YouTubeResponses ==
  { Response("ok", 0,
      << Entry("Trees water green", "", TRUE),
         Entry("Forest", "", TRUE),
         Entry("Green water trees", "", TRUE),
         Entry("The Forest at dawn", "Forests", TRUE),
         Entry("Cooking show", "", TRUE) >>),
    Response("ok", 0, << Entry("Forest", "", TRUE), Entry(Absent, Absent, FALSE) >>),
    Response("ok", 0, << Entry(None, "Forest", TRUE) >>),
    Response("error", 0, <<>>) }

\* answers to requests.get(google customsearch url, timeout=10)
CSEResponses ==
  { Response("ok", 0, << CSEEntry("Woodland", "Trees"), CSEEntry(Absent, Absent) >>),
    Response("ok", 0, << CSEEntry("Woodland", None) >>),
    Response("ok", 0, <<>>),
    Response("status", 0, <<>>),
    Response("error", 0, <<>>) }

Timeout == Response("timeout", 0, <<>>)

\* ------------------------------------------------------------ tabulation
\* The pure functions are evaluated once over the inputs above and looked
\* up afterwards. Call evaluates the function itself for a key outside the
\* table; the provider groups are only ever called on keys inside theirs.

RECURSIVE Tabulated(_, _)
Tabulated(f, S) ==
  IF S = {} THEN <<>>
  ELSE LET key == CHOOSE k \in S : TRUE
       IN  (key :> f[key]) @@ Tabulated(f, S \ {key})

Call(table, key, value) == IF key \in DOMAIN table THEN table[key] ELSE value

ExpandKeys == { <<extract_keywords(q), seed>> : q \in Queries, seed \in HashSeeds }

ExpandTable ==
  Tabulated([k \in ExpandKeys |-> expand_keywords(k[1], k[2])], ExpandKeys)

\* every list a provider group can hand to sort_results_by_relevance
GroupLists(query, seed) ==
  { my_sources_results(query, seed, FALSE, NoResponse) }
    \cup { my_sources_results(query, seed, TRUE, r) : r \in PexelsResponses }
    \cup { youtube_results(query, seed, FALSE, NoResponse, youtube_max_results) }
    \cup { youtube_results(query, seed, TRUE, r, youtube_max_results) :
             r \in YouTubeResponses }
    \cup { web_results(query, seed, FALSE, NoResponse, web_max_results) }
    \cup { web_results(query, seed, TRUE, r, web_max_results) : r \in CSEResponses }

ScoreKeys(query, seed) ==
  LET query_keywords == ExpandTable[<<extract_keywords(query), seed>>]
      items == UNION { Range(list) : list \in GroupLists(query, seed) }
  IN  { <<x.title, x.description, query_keywords, query>> :
          x \in { y \in items : y.title # None /\ y.description # None } }

ScoreTableOver(keys) ==
  Tabulated([k \in keys |->
               calculate_match_score([title |-> k[1], description |-> k[2]],
                                     k[3], k[4])], keys)

ScoreTable ==
  ScoreTableOver(UNION { ScoreKeys(q, seed) : q \in Queries, seed \in HashSeeds })

\* result['_relevance_score'] = score; result['_match_type'] = match_type
WithScore(result, m) ==
  [title |-> result.title, description |-> result.description,
   source_type |-> result.source_type, source_name |-> result.source_name,
   origin |-> result.origin,
   relevance_score |-> m.score, match_type |-> m.match_type]

Scored(result, query_keywords, original_query) ==
  WithScore(result,
            Call(ScoreTable,
                 <<result.title, result.description, query_keywords, original_query>>,
                 calculate_match_score(result, query_keywords, original_query)))

\* keywords and expanded_keywords of sort_results_by_relevance
query_keywords_of(original_query, seed) ==
  expand_keywords(extract_keywords(original_query), seed)

KeywordsKeys == { <<q, seed>> : q \in Queries, seed \in HashSeeds }

KeywordsTable ==
  Tabulated([k \in KeywordsKeys |-> ExpandTable[<<extract_keywords(k[1]), k[2]>>]],
            KeywordsKeys)

\* as sort_results_by_relevance, the items that score nothing left out
sort_results_by_relevance_DroppingZero(results, original_query, seed) ==
  IF results = <<>> THEN results
  ELSE SortByKey(<<>>,
         SelectSeq(
           [i \in 1..Len(results) |->
              Scored(results[i],
                     Call(KeywordsTable, <<original_query, seed>>,
                          query_keywords_of(original_query, seed)),
                     original_query)],
           LAMBDA item : RatLess(Rat(0, 1), item.relevance_score)))

sort_results_by_relevance(results, original_query, seed) ==
  IF results = <<>> THEN results
  ELSE SortByKey(<<>>,
         [i \in 1..Len(results) |->
            Scored(results[i],
                   Call(KeywordsTable, <<original_query, seed>>,
                        query_keywords_of(original_query, seed)),
                   original_query)])

\* What a provider group of perform_search gives back: raised is TRUE when
\* the call ends in an exception instead of a list
Returned(results) == [raised |-> FALSE, results |-> results]

Raised == [raised |-> TRUE, results |-> <<>>]

search_my_sources(query, seed, api_key, response) ==
  Returned(sort_results_by_relevance(
             my_sources_results(query, seed, api_key, response), query, seed))

search_youtube(query, seed, service, response, max_results) ==
  Returned(sort_results_by_relevance(
             youtube_results(query, seed, service, response, max_results),
             query, seed))

\* the sort of search_web_sources stands outside every try block
sorted_or_raised(results, query, seed) ==
  IF ScoringRaises(results) THEN Raised
  ELSE Returned(sort_results_by_relevance(results, query, seed))

search_web_sources(query, seed, credentials, response, max_results) ==
  sorted_or_raised(web_results(query, seed, credentials, response, max_results),
                   query, seed)

MySourcesKeys ==
  { <<q, seed, FALSE, NoResponse>> : q \in Queries, seed \in HashSeeds }
    \cup { <<q, seed, TRUE, r>> :
             q \in Queries, seed \in HashSeeds, r \in PexelsResponses \cup {Timeout} }

MySourcesTable ==
  Tabulated([k \in MySourcesKeys |-> search_my_sources(k[1], k[2], k[3], k[4])],
            MySourcesKeys)

YouTubeKeys ==
  { <<q, seed, FALSE, NoResponse>> : q \in Queries, seed \in HashSeeds }
    \cup { <<q, seed, TRUE, r>> :
             q \in Queries, seed \in HashSeeds, r \in YouTubeResponses }

YouTubeTable ==
  Tabulated([k \in YouTubeKeys |->
               search_youtube(k[1], k[2], k[3], k[4], youtube_max_results)],
            YouTubeKeys)

WebKeys ==
  { <<q, seed, FALSE, NoResponse>> : q \in Queries, seed \in HashSeeds }
    \cup { <<q, seed, TRUE, r>> :
             q \in Queries, seed \in HashSeeds, r \in CSEResponses \cup {Timeout} }

WebTable ==
  Tabulated([k \in WebKeys |->
               search_web_sources(k[1], k[2], k[3], k[4], web_max_results)],
            WebKeys)

EnhancedTable ==
  Tabulated([k \in KeywordsKeys |-> enhance_query_for_search(k[1], k[2])],
            KeywordsKeys)

\* self.enhance_query_for_search(query)
enhanced_query_of(query, seed) ==
  Call(EnhancedTable, <<query, seed>>, enhance_query_for_search(query, seed))

\* ----------------------------------------------------- the search session

VARIABLES
  hash_seed,          \* the process's string-hash seed
  pexels_api_key,     \* self.pexels_api_key is set
  youtube_service,    \* self.youtube_service is not None
  google_cse,         \* google_api_key and google_search_engine_id are set
  search_input,       \* the text in the search box at the last button press
  search_results,     \* st.session_state.search_results
  current_query,      \* st.session_state.current_query
  pc,                 \* where perform_search stands; "idle" outside it
  search_query,       \* perform_search's argument
  enabled,            \* its search_my_sources, search_youtube, search_web
  all_results,        \* its local list
  request,            \* the network call in flight
  outcome,            \* how the last perform_search ended
  answers,            \* what each provider group's network call gave
  ranked,             \* the sort_results_by_relevance calls made so far
  returned,           \* the provider groups that have returned
  enhanced_queries,   \* the enhance_query_for_search results of this search
  probe               \* one call of calculate_match_score on its own

vars ==
  << hash_seed, pexels_api_key, youtube_service, google_cse, search_input,
     search_results, current_query, pc, search_query, enabled, all_results,
     request, outcome, answers, ranked, returned, enhanced_queries, probe >>

config == << hash_seed, pexels_api_key, youtube_service, google_cse >>

session == << search_results, current_query >>

Groups == {"my_sources", "youtube", "web"}

\* the timeout= arguments of the two requests.get calls
pexels_timeout == 10

cse_timeout == 10

\* .execute() of the YouTube client is called without a timeout
NoTimeout == 0

NoRequest == [provider |-> "none", timeout |-> NoTimeout, query |-> ""]

NoScore ==
  [score |-> Rat(0, 1), match_type |-> "", direct |-> 0, keyword |-> 0,
   semantic |-> 0, fuzzy |-> Rat(0, 1)]

NoProbe ==
  [title |-> "", description |-> "", query |-> "", scored |-> FALSE,
   result |-> NoScore]

\* session_state as lines 26-35 leave it, and no search under way
InitSession ==
  /\ search_input = ""
  /\ search_results = <<>>
  /\ current_query = ""
  /\ pc = "idle"
  /\ search_query = ""
  /\ enabled = [g \in Groups |-> FALSE]
  /\ all_results = <<>>
  /\ request = NoRequest
  /\ outcome = "none"
  /\ answers = [g \in Groups |-> NoResponse]
  /\ ranked = {}
  /\ returned = {}
  /\ enhanced_queries = <<>>

Init ==
  /\ hash_seed \in HashSeeds
  /\ pexels_api_key \in BOOLEAN
  /\ youtube_service \in BOOLEAN
  /\ google_cse \in BOOLEAN
  /\ InitSession
  /\ probe = NoProbe

\* as next_step, the final sort coming straight after the first group
next_step_RankEarly(step) ==
  CASE step = "my_sources" -> "rank"
    [] step = "youtube" -> "web"
    [] step = "web" -> "rank"

\* the order of the provider groups in perform_search
next_step(step) ==
  CASE step = "my_sources" -> "youtube"
    [] step = "youtube" -> "web"
    [] step = "web" -> "rank"

\* main: the Smart Search button is pressed with `query` in the box and the
\* three sidebar checkboxes as in `flags`
Submit(query, flags) ==
  /\ pc = "idle"
  /\ search_input' = query
  /\ IF query # ""
       THEN /\ pc' = "my_sources"
            /\ search_query' = query
            /\ enabled' = flags
            /\ all_results' = <<>>
            /\ outcome' = "running"
            /\ answers' = [g \in Groups |-> NoResponse]
            /\ ranked' = {}
            /\ returned' = {}
            /\ enhanced_queries' = <<>>
            /\ UNCHANGED request
       ELSE UNCHANGED << pc, search_query, enabled, all_results, request,
                         outcome, answers, ranked, returned, enhanced_queries >>
  /\ UNCHANGED << config, probe, session >>

\* a provider group is switched off: perform_search passes it by
Skip(group) ==
  /\ pc = group
  /\ ~enabled[group]
  /\ pc' = next_step(group)
  /\ UNCHANGED << config, probe, session, search_input, search_query, enabled,
                  all_results, request, outcome, answers, ranked, returned,
                  enhanced_queries >>

\* as Extend, the group's list replacing what the earlier groups gave
Extend_Overwriting(group, response, call) ==
  /\ answers' = [answers EXCEPT ![group] = response]
  /\ request' = NoRequest
  /\ IF call.raised
       THEN /\ pc' = "idle"
            /\ outcome' = "raised"
            /\ UNCHANGED << all_results, ranked, returned >>
       ELSE /\ pc' = next_step(group)
            /\ all_results' = call.results
            /\ ranked' = ranked \cup {group}
            /\ returned' = returned \cup {group}
            /\ UNCHANGED outcome
  /\ UNCHANGED << config, probe, session, search_input, search_query, enabled >>

\* as Extend, the group's list put before what the earlier groups gave
Extend_Prepending(group, response, call) ==
  /\ answers' = [answers EXCEPT ![group] = response]
  /\ request' = NoRequest
  /\ IF call.raised
       THEN /\ pc' = "idle"
            /\ outcome' = "raised"
            /\ UNCHANGED << all_results, ranked, returned >>
       ELSE /\ pc' = next_step(group)
            /\ all_results' = call.results \o all_results
            /\ ranked' = ranked \cup {group}
            /\ returned' = returned \cup {group}
            /\ UNCHANGED outcome
  /\ UNCHANGED << config, probe, session, search_input, search_query, enabled >>

\* all_results.extend(group's list) once the group's call has come back
Extend(group, response, call) ==
  /\ answers' = [answers EXCEPT ![group] = response]
  /\ request' = NoRequest
  /\ IF call.raised
       THEN /\ pc' = "idle"
            /\ outcome' = "raised"
            /\ UNCHANGED << all_results, ranked, returned >>
       ELSE /\ pc' = next_step(group)
            /\ all_results' = all_results \o call.results
            /\ ranked' = ranked \cup {group}
            /\ returned' = returned \cup {group}
            /\ UNCHANGED outcome
  /\ UNCHANGED << config, probe, session, search_input, search_query, enabled >>

Send(provider, timeout, query) ==
  /\ pc' = provider
  /\ request' = [provider |-> provider, timeout |-> timeout, query |-> query]
  /\ UNCHANGED << config, probe, session, search_input, search_query, enabled,
                  all_results, outcome, answers, ranked, returned >>

\* broll_lib.search_my_sources(search_query), given the Pexels answer
my_sources_call(response) ==
  MySourcesTable[<<search_query, hash_seed, pexels_api_key, response>>]

\* broll_lib.search_youtube(search_query), given the YouTube answer
youtube_call(response) ==
  YouTubeTable[<<search_query, hash_seed, youtube_service, response>>]

\* broll_lib.search_web_sources(search_query), given the custom-search answer
web_call(response) ==
  WebTable[<<search_query, hash_seed, google_cse, response>>]

\* enhanced_query = self.enhance_query_for_search(query), the first line of
\* search_my_sources, search_youtube and search_web_sources
Enhance ==
  enhanced_queries' =
    Append(enhanced_queries, enhanced_query_of(search_query, hash_seed))

\* as MySources, run whether or not the group is switched on
MySources_IgnoringFlag ==
  /\ pc = "my_sources"
  /\ Enhance
  /\ IF pexels_api_key
       THEN Send("pexels", pexels_timeout, enhanced_query_of(search_query, hash_seed))
       ELSE Extend("my_sources", NoResponse, my_sources_call(NoResponse))

\* search_my_sources up to the Pexels request, or to its end without a key
MySources ==
  /\ pc = "my_sources"
  /\ enabled["my_sources"]
  /\ Enhance
  /\ IF pexels_api_key
       THEN Send("pexels", pexels_timeout, enhanced_query_of(search_query, hash_seed))
       ELSE Extend("my_sources", NoResponse, my_sources_call(NoResponse))

PexelsAnswers(response) ==
  /\ pc = "pexels"
  /\ Extend("my_sources", response, my_sources_call(response))
  /\ UNCHANGED enhanced_queries

\* requests raises Timeout after pexels_timeout seconds: the except branch
PexelsTimesOut ==
  /\ pc = "pexels"
  /\ request.timeout # NoTimeout
  /\ Extend("my_sources", Timeout, my_sources_call(Timeout))
  /\ UNCHANGED enhanced_queries

\* search_youtube up to the API request, or to its end without a service
YouTube ==
  /\ pc = "youtube"
  /\ enabled["youtube"]
  /\ Enhance
  /\ IF youtube_service
       THEN Send("youtube_api", NoTimeout,
                 enhanced_query_of(search_query, hash_seed)
                   \o " b-roll footage stock video")
       ELSE Extend("youtube", NoResponse, youtube_call(NoResponse))

YouTubeAnswers(response) ==
  /\ pc = "youtube_api"
  /\ Extend("youtube", response, youtube_call(response))
  /\ UNCHANGED enhanced_queries

\* search_web_sources up to the custom-search request, or to its end
\* without credentials
Web ==
  /\ pc = "web"
  /\ enabled["web"]
  /\ Enhance
  /\ IF google_cse
       THEN Send("google_cse", cse_timeout,
                 enhanced_query_of(search_query, hash_seed)
                   \o " b-roll stock video footage free")
       ELSE Extend("web", NoResponse, web_call(NoResponse))

CSEAnswers(response) ==
  /\ pc = "google_cse"
  /\ Extend("web", response, web_call(response))
  /\ UNCHANGED enhanced_queries

CSETimesOut ==
  /\ pc = "google_cse"
  /\ request.timeout # NoTimeout
  /\ Extend("web", Timeout, web_call(Timeout))
  /\ UNCHANGED enhanced_queries

\* as Rank, the final sort given the enhanced query
\* st.session_state.search_results = all_results, and the return
Store(sorted) ==
  /\ all_results' = sorted
  /\ search_results' = sorted
  /\ current_query' = search_query
  /\ ranked' = ranked \cup {"all"}
  /\ outcome' = "returned"
  /\ pc' = "idle"
  /\ UNCHANGED << config, probe, search_input, search_query, enabled, request,
                  answers, returned, enhanced_queries >>

Rank_EnhancedQuery ==
  /\ pc = "rank"
  /\ Store(sort_results_by_relevance(
             all_results, enhance_query_for_search(search_query, hash_seed),
             hash_seed))

\* the final sort of perform_search and the two session_state writes
Rank ==
  /\ pc = "rank"
  /\ Store(sort_results_by_relevance(all_results, search_query, hash_seed))

Flags == [Groups -> BOOLEAN]

Next ==
  \/ \E query \in Queries \cup {""}, flags \in Flags : Submit(query, flags)
  \/ \E group \in Groups : Skip(group)
  \/ MySources
  \/ \E response \in PexelsResponses : PexelsAnswers(response)
  \/ PexelsTimesOut
  \/ YouTube
  \/ \E response \in YouTubeResponses : YouTubeAnswers(response)
  \/ Web
  \/ \E response \in CSEResponses : CSEAnswers(response)
  \/ CSETimesOut
  \/ Rank

Spec == Init /\ [][Next]_vars

\* ------------------------------------------- calculate_match_score alone

ProbeTitles ==
  { "Business Meeting Stock Footage", "THE FOREST at dawn", "Forests and trees",
    "Corporate office team", "Pexels: Forest Video", "In the forests", "The",
    "" }

ProbeDescriptions ==
  { "", "nature", "Forest walk, a meeting",
    "Beautiful mountains and trees landscape" }

ProbeQueries ==
  { "The Forest", "forest", "forest forest trees", "business meeting", "AI", "" }

ScoreInit ==
  /\ hash_seed \in HashSeeds
  /\ pexels_api_key = FALSE
  /\ youtube_service = FALSE
  /\ google_cse = FALSE
  /\ InitSession
  /\ \E title \in ProbeTitles, description \in ProbeDescriptions,
        query \in ProbeQueries :
        probe = [title |-> title, description |-> description, query |-> query,
                 scored |-> FALSE, result |-> NoScore]

\* score, match_type = self.semantic_engine.calculate_match_score(
\*     result, expanded_keywords, original_query)
Score ==
  /\ ~probe.scored
  /\ probe' =
       [probe EXCEPT
          !.scored = TRUE,
          !.result =
             calculate_match_score(
               [title |-> probe.title, description |-> probe.description],
               expand_keywords(extract_keywords(probe.query), hash_seed),
               probe.query)]
  /\ UNCHANGED << config, session, search_input, pc, search_query, enabled,
                  all_results, request, outcome, answers, ranked, returned,
                  enhanced_queries >>

ScoreNext == Score

ScoreSpec == ScoreInit /\ [][ScoreNext]_vars

\* ------------------------------------- the SemanticSearchEngine alone

EngineQueries ==
  { "", "The Forest", "forest forest trees", "Business meeting in the office",
    "AI and ML", "a an of", "Music, Art & nature!", "nature forest",
    "to be or not", "Up in the AIR", "City street, music concert videos",
    "x1 y22 abc_def", "Go go GO gone", "sound of music", "forest-trees/water",
    "The forest and THE Forest by AI" }

\* keyword lists handed to expand_keywords as they are
EngineKeywords ==
  { <<"AI">>, <<"ai">>, <<"trees", "nature", "trees", "water">>,
    <<"dance", "design", "dance">> }

NoExpanded == [original |-> <<>>, semantic |-> <<>>, related |-> <<>>]

EngineProbe(query, step, keywords) ==
  [query |-> query, step |-> step, keywords |-> keywords, again |-> <<>>,
   expanded |-> NoExpanded, enhanced |-> "", enhanced_again |-> ""]

EngineInit ==
  /\ hash_seed \in HashSeeds
  /\ pexels_api_key = FALSE
  /\ youtube_service = FALSE
  /\ google_cse = FALSE
  /\ InitSession
  /\ \/ \E query \in EngineQueries : probe = EngineProbe(query, "query", <<>>)
     \/ \E keywords \in EngineKeywords :
           probe = EngineProbe("", "keywords", keywords)

EngineStep ==
  UNCHANGED << config, session, search_input, pc, search_query, enabled,
               all_results, request, outcome, answers, ranked, returned,
               enhanced_queries >>

\* keywords = self.semantic_engine.extract_keywords(original_query)
ProbeExtract ==
  /\ probe.step = "query"
  /\ probe' = [probe EXCEPT !.step = "extracted",
                            !.keywords = extract_keywords(probe.query)]
  /\ EngineStep

\* extract_keywords run on its own output, joined by spaces
ProbeExtractAgain ==
  /\ probe.step = "extracted"
  /\ probe' = [probe EXCEPT !.step = "again",
                            !.again = extract_keywords(Join(probe.keywords))]
  /\ EngineStep

\* expanded_keywords = self.semantic_engine.expand_keywords(keywords)
ProbeExpand ==
  /\ probe.step \in {"extracted", "keywords"}
  /\ probe' = [probe EXCEPT !.step = "expanded",
                            !.expanded = expand_keywords(probe.keywords, hash_seed)]
  /\ EngineStep

\* self.enhance_query_for_search(original_query)
ProbeEnhance ==
  /\ probe.step = "expanded"
  /\ probe.expanded.original = extract_keywords(probe.query)
  /\ probe' = [probe EXCEPT !.step = "enhanced",
                            !.enhanced =
                               enhance_query_for_search(probe.query, hash_seed)]
  /\ EngineStep

\* the app is started anew: the new process draws its own string-hash seed
ProbeRestart ==
  /\ probe.step = "enhanced"
  /\ hash_seed' \in HashSeeds
  /\ probe' = [probe EXCEPT !.step = "restarted"]
  /\ UNCHANGED << pexels_api_key, youtube_service, google_cse, session,
                  search_input, pc, search_query, enabled, all_results, request,
                  outcome, answers, ranked, returned, enhanced_queries >>

\* self.enhance_query_for_search(original_query), the same query once more
ProbeEnhanceAgain ==
  /\ probe.step \in {"enhanced", "restarted"}
  /\ probe' = [probe EXCEPT !.step = "enhanced_again",
                            !.enhanced_again =
                               enhance_query_for_search(probe.query, hash_seed)]
  /\ EngineStep

EngineNext ==
  \/ ProbeExtract
  \/ ProbeExtractAgain
  \/ ProbeExpand
  \/ ProbeEnhance
  \/ ProbeRestart
  \/ ProbeEnhanceAgain

EngineSpec == EngineInit /\ [][EngineNext]_vars

\* ------------------------------------------------------------ properties

\* a perform_search has come back with its list stored in session_state
Completed == pc = "idle" /\ outcome = "returned"

Priority(item) == match_type_priority(item.match_type)

SameScore(a, b) == a.relevance_score = b.relevance_score

\* C1: in the list perform_search stores, an item stands before another only
\* if its score is strictly greater, or the scores are equal and its
\* match-type priority is less than or equal to the other's.
C1_SortedByScoreThenPriority ==
  Completed =>
    \A i \in 1..Len(search_results), j \in 1..Len(search_results) :
       i < j =>
         \/ RatLess(search_results[j].relevance_score,
                    search_results[i].relevance_score)
         \/ /\ SameScore(search_results[i], search_results[j])
            /\ Priority(search_results[i]) <= Priority(search_results[j])

\* a stored list where the priority decides between two equal scores and the
\* score decides between two other items
C1_Witness ==
  /\ Completed
  /\ \E i \in 1..Len(search_results), j \in 1..Len(search_results) :
        /\ i < j
        /\ SameScore(search_results[i], search_results[j])
        /\ Priority(search_results[i]) < Priority(search_results[j])
  /\ \E i \in 1..Len(search_results), j \in 1..Len(search_results) :
        /\ i < j
        /\ RatLess(search_results[j].relevance_score,
                   search_results[i].relevance_score)
        /\ Priority(search_results[i]) > Priority(search_results[j])

\* the lower-cased query is a substring of the probe's lower-cased content
ProbeHasQuery ==
  Contains(Lower(probe.title) \o " " \o Lower(probe.description),
           Lower(probe.query))

\* C2: when the lower-cased original query is a substring of the item's
\* lower-cased title and description, calculate_match_score gives the direct
\* bucket 100 and the match type direct, whatever the other buckets hold.
C2_QueryInContentIsDirect ==
  (probe.scored /\ ProbeHasQuery) =>
     probe.result.direct = 100 /\ probe.result.match_type = "direct"

\* a query with capitals found in the content of an item whose semantic
\* bucket exceeds its keyword bucket
C2_Witness ==
  /\ probe.scored
  /\ probe.query # Lower(probe.query)
  /\ ProbeHasQuery
  /\ probe.result.keyword > 0
  /\ probe.result.semantic > probe.result.keyword
  /\ probe.result.match_type = "direct"

\* C3: a failure of one provider never propagates out of perform_search.
C3_NoFailurePropagates == outcome # "raised"

\* C4: every stored item carries the score and the match type that
\* calculate_match_score gives for expand(extract(original query)) and the
\* original query.
C4_ScoredAgainstOriginalQuery ==
  Completed =>
    LET query_keywords ==
          Call(ExpandTable, <<extract_keywords(current_query), hash_seed>>,
               expand_keywords(extract_keywords(current_query), hash_seed))
    IN  \A i \in 1..Len(search_results) :
          LET item == search_results[i]
              m == Call(ScoreTable,
                        <<item.title, item.description, query_keywords, current_query>>,
                        calculate_match_score(item, query_keywords, current_query))
          IN  item.relevance_score = m.score /\ item.match_type = m.match_type

\* a stored item whose score against the enhanced query is another one
C4_Witness ==
  /\ Completed
  /\ search_results # <<>>
  /\ LET enhanced_query == enhance_query_for_search(current_query, hash_seed)
         item == search_results[1]
     IN  calculate_match_score(item,
                               expand_keywords(extract_keywords(enhanced_query),
                                               hash_seed),
                               enhanced_query).score
           # item.relevance_score

AllReturned == \A g \in Groups : enabled[g] => g \in returned

\* C5 as stated: nothing is scored or sorted while an enabled provider group
\* has not returned.
C5_NoRankingBeforeAllReturned == ranked # {} => AllReturned

\* C5 amended: the final sort of perform_search over the merged list begins
\* only after every enabled provider group has returned.
C5_FinalRankingAfterAllReturned == "all" \in ranked => AllReturned

C5_Witness ==
  /\ "all" \in ranked
  /\ \A g \in Groups : enabled[g]
  /\ ranked = Groups \cup {"all"}

\* C6: every network call in flight carries a bounded timeout.
C6_EveryRequestHasTimeout ==
  request.provider # "none" => request.timeout # NoTimeout

NoneEnabled == \A g \in Groups : ~enabled[g]

\* C7: a search with no provider group enabled does not raise and stores the
\* empty list under its query.
C7_NoProviderGivesEmpty ==
  NoneEnabled =>
    /\ outcome # "raised"
    /\ Completed => search_results = <<>> /\ current_query = search_query

C7_Witness == Completed /\ NoneEnabled /\ search_query # ""

\* C8: after the empty query is submitted the result sequence is empty.
C8_EmptyQueryGivesEmpty ==
  (pc = "idle" /\ search_input = "") => search_results = <<>>

\* the providers in the order perform_search and search_my_sources call them
invocation_order ==
  << "pexels", "playphrase", "clip_cafe", "yarn", "youtube", "web" >>

ProviderRank(provider) ==
  CHOOSE n \in 1..Len(invocation_order) : invocation_order[n] = provider

\* the place of origin a in the concatenation of the provider outputs is
\* before that of origin b
OriginBefore(a, b) ==
  \/ ProviderRank(a[1]) < ProviderRank(b[1])
  \/ a[1] = b[1] /\ a[2] < b[2]

\* C9: stored items with equal score and equal match-type priority stand in
\* the order of the concatenation of the provider outputs.
C9_TiesKeepProviderOrder ==
  Completed =>
    \A i \in 1..Len(search_results), j \in 1..Len(search_results) :
       ( /\ i < j
         /\ SameScore(search_results[i], search_results[j])
         /\ Priority(search_results[i]) = Priority(search_results[j]) )
       => OriginBefore(search_results[i].origin, search_results[j].origin)

\* ties inside one provider's output and between two provider groups, in a
\* list that the sort did reorder
C9_Witness ==
  /\ Completed
  /\ \E i \in 1..Len(search_results), j \in 1..Len(search_results) :
        /\ i < j
        /\ SameScore(search_results[i], search_results[j])
        /\ search_results[i].origin[1] = "pexels"
        /\ search_results[j].origin[1] = "web"
  /\ \E i \in 1..Len(search_results), j \in 1..Len(search_results) :
        /\ i < j
        /\ SameScore(search_results[i], search_results[j])
        /\ Priority(search_results[i]) = Priority(search_results[j])
        /\ search_results[i].origin[1] = "youtube"
        /\ search_results[j].origin[1] = "youtube"
  /\ \E i \in 1..Len(search_results), j \in 1..Len(search_results) :
        i < j /\ OriginBefore(search_results[j].origin, search_results[i].origin)

\* what a provider group gives for a query and its own answer alone
GroupCall(group, query, seed) ==
  CASE group = "my_sources" ->
         Call(MySourcesTable, <<query, seed, pexels_api_key, answers[group]>>,
              search_my_sources(query, seed, pexels_api_key, answers[group]))
    [] group = "youtube" ->
         Call(YouTubeTable, <<query, seed, youtube_service, answers[group]>>,
              search_youtube(query, seed, youtube_service, answers[group],
                             youtube_max_results))
    [] group = "web" ->
         Call(WebTable, <<query, seed, google_cse, answers[group]>>,
              search_web_sources(query, seed, google_cse, answers[group],
                                 web_max_results))

\* the items of a provider group in the stored list
Contribution(group) ==
  SelectSeq(search_results, LAMBDA item : item.source_type = group)

group_order == << "my_sources", "youtube", "web" >>

GroupRank(group) == CHOOSE n \in 1..Len(group_order) : group_order[n] = group

\* perform_search ended in an exception raised by `group`
RaisedIn(group) ==
  /\ pc = "idle"
  /\ outcome = "raised"
  /\ enabled[group]
  /\ group \notin returned
  /\ \A g \in Groups :
        (enabled[g] /\ GroupRank(g) < GroupRank(group)) => g \in returned

\* the credential of the one credentialed provider of a group is set
HasKey(group) ==
  CASE group = "my_sources" -> pexels_api_key
    [] group = "youtube" -> youtube_service
    [] group = "web" -> google_cse

\* the network call a group makes
NetworkCall(group) ==
  CASE group = "my_sources" -> "pexels"
    [] group = "youtube" -> "youtube_api"
    [] group = "web" -> "google_cse"

\* the credentialed provider of a group, as the items' origin names it
KeyedProvider(group) ==
  CASE group = "my_sources" -> "pexels"
    [] group = "youtube" -> "youtube"
    [] group = "web" -> "web"

\* the synthetic items of a group's credentialed provider
FallbackItems(group, query) ==
  CASE group = "my_sources" -> search_pexels_mock(query)
    [] group = "youtube" -> search_youtube_mock(query, youtube_max_results)
    [] group = "web" -> search_curated_web_sources(query, web_max_results)

\* the fallback set of each group for each query, computed once
FallbackTable ==
  LET keys == { <<g, q, seed>> : g \in Groups, q \in Queries, seed \in HashSeeds }
  IN  Tabulated([k \in keys |->
                   Range(FallbackItems(k[1], enhanced_query_of(k[2], k[3])))],
                keys)

\* an item without the two fields the sort writes
Unscored(item) ==
  [title |-> item.title, description |-> item.description,
   source_type |-> item.source_type, source_name |-> item.source_name,
   origin |-> item.origin]

\* the items of a provider in perform_search's list, scores left out
ProviderItems(provider) ==
  { Unscored(all_results[i]) :
      i \in { k \in 1..Len(all_results) : all_results[k].origin[1] = provider } }

\* C11: for a credentialed provider whose key is absent no network call is
\* in flight or was answered, its group does not raise, and once the group
\* has returned the provider's items are exactly its synthetic fallback set.
C11_NoKeyGivesFallback ==
  \A g \in Groups :
     ~HasKey(g) =>
        /\ request.provider # NetworkCall(g)
        /\ answers[g] = NoResponse
        /\ ~RaisedIn(g)
        /\ g \in returned =>
             ProviderItems(KeyedProvider(g)) =
               Call(FallbackTable, <<g, search_query, hash_seed>>,
                    Range(FallbackItems(g, enhanced_query_of(search_query,
                                                             hash_seed))))

\* a search through all three groups with no key set at all
C11_Witness ==
  /\ Completed
  /\ \A g \in Groups : enabled[g] /\ ~HasKey(g) /\ g \in returned
  /\ \A g \in Groups : ProviderItems(KeyedProvider(g)) # {}

\* search_<group> has been entered in this perform_search
Started(group) ==
  /\ enabled[group]
  /\ \/ group \in returned
     \/ request.provider = NetworkCall(group)
     \/ RaisedIn(group)

\* the text a network call sends after the query it was given
QuerySuffix(provider) ==
  CASE provider = "pexels" -> ""
    [] provider = "youtube_api" -> " b-roll footage stock video"
    [] provider = "google_cse" -> " b-roll stock video footage free"

\* the providers without credentials were called with `query`
MocksCalledWith(query) ==
  "my_sources" \in returned =>
     /\ ProviderItems("playphrase") = Range(search_playphrase_mock(query))
     /\ ProviderItems("clip_cafe") = Range(search_clipcafe_mock(query))
     /\ ProviderItems("yarn") = Range(search_yarn_mock(query))

\* the network call in flight was given `query`
RequestCarries(query) ==
  request.provider # "none" =>
     request.query = query \o QuerySuffix(request.provider)

\* C12 as stated: one perform_search computes the enhanced query once, and
\* the providers are called with that one value.
C12_EnhancedOnce ==
  (\E g \in Groups : Started(g)) =>
     /\ Len(enhanced_queries) = 1
     /\ MocksCalledWith(enhanced_queries[1])
     /\ RequestCarries(enhanced_queries[1])

\* C12 amended: every provider group that is entered computes the enhanced
\* query itself, once; all these computations give the same value, and the
\* providers are called with it.
C12_EnhancedOncePerGroup ==
  /\ Len(enhanced_queries) = Cardinality({ g \in Groups : Started(g) })
  /\ \A i \in 1..Len(enhanced_queries) :
        enhanced_queries[i] = enhanced_queries[1]
  /\ enhanced_queries # <<>> =>
        /\ MocksCalledWith(enhanced_queries[1])
        /\ RequestCarries(enhanced_queries[1])

\* three groups entered, the last one waiting for its network call
C12_Witness ==
  /\ Len(enhanced_queries) = 3
  /\ "my_sources" \in returned
  /\ request.provider = "google_cse"
  /\ enhanced_queries[1] # search_query

\* C13: in the stored list shown as All Results no item stands before an
\* item of a better match type: direct before keyword before semantic.
C13_DirectThenKeywordThenSemantic ==
  Completed =>
    \A i \in 1..Len(search_results), j \in 1..Len(search_results) :
       i < j => Priority(search_results[i]) <= Priority(search_results[j])

\* C14: the match type is direct when the direct bucket is positive,
\* otherwise keyword when the keyword bucket is strictly greater than the
\* semantic bucket, otherwise semantic; the fuzzy bucket is part of the
\* score and of nothing else.
C14_MatchTypeFromBuckets ==
  probe.scored =>
    /\ probe.result.match_type =
         IF probe.result.direct > 0 THEN "direct"
         ELSE IF probe.result.keyword > probe.result.semantic THEN "keyword"
         ELSE "semantic"
    /\ probe.result.score =
         RatAdd(Rat(probe.result.direct + probe.result.keyword
                      + probe.result.semantic, 1),
                probe.result.fuzzy)

\* keyword and semantic buckets level and fuzzy points on top: still semantic
C14_Witness ==
  /\ probe.scored
  /\ probe.result.direct = 0
  /\ probe.result.keyword > 0
  /\ probe.result.keyword = probe.result.semantic
  /\ RatLess(Rat(0, 1), probe.result.fuzzy)
  /\ probe.result.match_type = "semantic"

\* the probe holds extract_keywords(probe.query) in probe.keywords
Extracted == probe.step \in {"extracted", "again"}

\* the places from `from` on where `token` stands in `text`
PlacesOf(token, text, from) ==
  { p \in from..(Len(text) - Len(token) + 1) :
      SubSeq(text, p, p + Len(token) - 1) = token }

\* the tokens stand in the text one after the other, in their order
RECURSIVE OccurInOrder(_, _, _)
OccurInOrder(tokens, text, from) ==
  \/ tokens = <<>>
  \/ /\ PlacesOf(tokens[1], text, from) # {}
     /\ OccurInOrder(Tail(tokens), text,
                     (CHOOSE p \in PlacesOf(tokens[1], text, from) :
                        \A r \in PlacesOf(tokens[1], text, from) : p <= r)
                       + Len(tokens[1]))

\* C15: no token extract_keywords returns is a stop word or has length 2 or
\* less; the tokens are lower-case and stand in the order in which they
\* occur in the query; the empty query gives the empty sequence.
C15_ExtractedTokens ==
  Extracted =>
    /\ \A i \in 1..Len(probe.keywords) :
          /\ probe.keywords[i] \notin stop_words
          /\ Len(probe.keywords[i]) > 2
          /\ Lower(probe.keywords[i]) = probe.keywords[i]
    /\ OccurInOrder(probe.keywords, Lower(probe.query), 1)
    /\ probe.query = "" => probe.keywords = <<>>

\* a query with capitals, stop words and short words whose tokens repeat
C15_Witness ==
  /\ Extracted
  /\ probe.query # Lower(probe.query)
  /\ Len(probe.keywords) >= 2
  /\ probe.keywords[1] = probe.keywords[2]
  /\ \E w \in Range(FindWords(Lower(probe.query))) : w \in stop_words
  /\ \E w \in Range(FindWords(Lower(probe.query))) :
        w \notin stop_words /\ Len(w) <= 2

\* C16: extract_keywords applied to the space-joined output of
\* extract_keywords gives that same token sequence.
C16_ExtractIdempotent ==
  probe.step = "again" => probe.again = probe.keywords

\* the second run on a query the first run did change
C16_Witness ==
  /\ probe.step = "again"
  /\ Len(probe.keywords) >= 2
  /\ Join(probe.keywords) # probe.query
  /\ Join(probe.keywords) # Lower(probe.query)

NoDuplicates(seq) ==
  \A i \in 1..Len(seq), j \in 1..Len(seq) : seq[i] = seq[j] => i = j

\* expanded['related'] before list(set(...))
RelatedWithRepeats(keywords) ==
  Flatten([i \in 1..Len(keywords) |-> reverse_mappings(keywords[i])])

\* C17: the semantic and related lists expand_keywords returns hold no
\* element twice, and original is the keyword list it was given.
C17_ExpandedWithoutDuplicates ==
  probe.step = "expanded" =>
    /\ NoDuplicates(probe.expanded.semantic)
    /\ NoDuplicates(probe.expanded.related)
    /\ probe.expanded.original = probe.keywords

\* a keyword given twice and two keywords of one category
C17_Witness ==
  /\ probe.step = "expanded"
  /\ ~NoDuplicates(probe.keywords)
  /\ Len(probe.expanded.related) = 1
  /\ Len(RelatedWithRepeats(probe.keywords)) >= 3
  /\ Len(probe.expanded.semantic) = 10

\* the categories of the mapping and each one's related terms
Categories == { semantic_mappings[i].main_term : i \in 1..Len(semantic_mappings) }

TermsOf(category) ==
  UNION { Range(semantic_mappings[i].related_terms) :
            i \in { k \in 1..Len(semantic_mappings) :
                      semantic_mappings[k].main_term = category } }

\* C18: related holds the categories whose related-term list contains an
\* input keyword; semantic holds the related terms of every category that is
\* an input keyword or stands in related; nothing else is in either; and
\* the reverse mapping gives for each term the categories that contain it.
C18_ExpandedExactly ==
  probe.step = "expanded" =>
    /\ Range(probe.expanded.related) =
         { c \in Categories : Range(probe.keywords) \cap TermsOf(c) # {} }
    /\ Range(probe.expanded.semantic) =
         UNION { TermsOf(c) :
                   c \in { d \in Categories :
                             \/ d \in Range(probe.keywords)
                             \/ d \in Range(probe.expanded.related) } }
    /\ \A t \in Range(Vocabulary) :
          Range(reverse_mappings(t)) = { c \in Categories : t \in TermsOf(c) }

\* categories given by name together with related terms of categories
C18_Witness ==
  /\ probe.step = "expanded"
  /\ Range(probe.keywords) \cap Categories # {}
  /\ Len(probe.expanded.related) = 2
  /\ Len(probe.expanded.semantic) > 10
  /\ \E k \in Range(probe.keywords) :
        k \notin Categories /\ reverse_mappings(k) = <<>>

\* the first n elements, or all of them when there are fewer
FirstOf(seq, n) == [i \in 1..(IF Len(seq) < n THEN Len(seq) ELSE n) |-> seq[i]]

\* C19: enhance_query_for_search gives the extracted tokens in order, then
\* the first min(3, |semantic|) semantic terms, then the first
\* min(2, |related|) related terms, joined by spaces: it starts with the
\* original tokens and adds at most 5.
C19_EnhancedQueryShape ==
  probe.step = "enhanced" =>
    /\ probe.enhanced =
         Join(probe.keywords \o FirstOf(probe.expanded.semantic, 3)
                             \o FirstOf(probe.expanded.related, 2))
    /\ Len(FindWords(probe.enhanced)) <= Len(probe.keywords) + 5
    /\ SubSeq(FindWords(probe.enhanced), 1, Len(probe.keywords)) = probe.keywords

\* more semantic and related terms than are taken, and a query with fewer
C19_Witness ==
  /\ probe.step = "enhanced"
  /\ Len(probe.keywords) >= 2
  /\ Len(probe.expanded.semantic) > 3
  /\ Len(probe.expanded.related) >= 2
  /\ Len(FindWords(probe.enhanced)) = Len(probe.keywords) + 5

\* C20: the keyword bucket is 20 times the number of distinct tokens of the
\* original query that are substrings of the content.
C20_KeywordBucketCountsDistinctTokens ==
  probe.scored =>
    probe.result.keyword =
      20 * Cardinality(
             { t \in Range(extract_keywords(probe.query)) :
                 Contains(Lower(probe.title) \o " " \o Lower(probe.description),
                          t) })

\* C21: two invocations of enhance_query_for_search with the same query give
\* the same string.
C21_EnhancedQueryFunctionOfQuery ==
  probe.step = "enhanced_again" => probe.enhanced_again = probe.enhanced

\* the list a provider group hands to its own sort_results_by_relevance
RawResults(group, query, seed, credentials, response) ==
  CASE group = "my_sources" ->
         my_sources_results(query, seed, credentials, response)
    [] group = "youtube" ->
         youtube_results(query, seed, credentials, response,
                         youtube_max_results)
    [] group = "web" ->
         web_results(query, seed, credentials, response, web_max_results)

\* those lists for every call a search can make, computed once
RawTable ==
  LET keys == { <<"my_sources">> \o k : k \in MySourcesKeys }
                \cup { <<"youtube">> \o k : k \in YouTubeKeys }
                \cup { <<"web">> \o k : k \in WebKeys }
  IN  Tabulated([k \in keys |-> RawResults(k[1], k[2], k[3], k[4], k[5])],
                keys)

RawOf(group) ==
  Call(RawTable, <<group, search_query, hash_seed, HasKey(group), answers[group]>>,
       RawResults(group, search_query, hash_seed, HasKey(group),
                  answers[group]))

\* the unsorted provider outputs of the enabled groups, in invocation order
RawConcatenation ==
  Flatten([n \in 1..Len(group_order) |->
             IF enabled[group_order[n]] THEN RawOf(group_order[n]) ELSE <<>>])

\* the sorted lists of the enabled groups, as perform_search concatenates them
SortedConcatenation ==
  Flatten([n \in 1..Len(group_order) |->
             IF enabled[group_order[n]]
               THEN sort_results_by_relevance(RawOf(group_order[n]),
                                              search_query, hash_seed)
               ELSE <<>>])

\* C22: the list perform_search stores, after each group sorted its own
\* list and the whole was sorted again, is the list one scoring and stable
\* sorting pass gives over the unsorted provider outputs concatenated in
\* invocation order, scores and match types included.
C22_TwoPhasesAsOnePass ==
  Completed =>
    search_results =
      sort_results_by_relevance(RawConcatenation, current_query, hash_seed)

\* three groups; the group sorts and the final sort each moved items
C22_Witness ==
  /\ Completed
  /\ \A g \in Groups : enabled[g]
  /\ answers["youtube"].kind = "ok"
  /\ \E i \in 1..Len(RawOf("youtube")) :
        RawOf("youtube")[i].origin # Contribution("youtube")[i].origin
  /\ search_results # SortedConcatenation

\* the content calculate_match_score builds for the probe
ProbeContent == Lower(probe.title) \o " " \o Lower(probe.description)

\* C23: an item classified direct holds every token of
\* extract_keywords(original query) as a substring of its content, its
\* keyword bucket is 20 times the number of those tokens, and its score is
\* at least 100 plus that.
C23_DirectHoldsEveryToken ==
  (probe.scored /\ probe.result.match_type = "direct") =>
    /\ \A t \in Range(extract_keywords(probe.query)) : Contains(ProbeContent, t)
    /\ probe.result.keyword = 20 * Len(extract_keywords(probe.query))
    /\ ~RatLess(probe.result.score,
                Rat(100 + 20 * Len(extract_keywords(probe.query)), 1))

\* a direct match of a query that loses a stop word, its token inside a
\* longer word of the content
C23_Witness ==
  /\ probe.scored
  /\ probe.result.match_type = "direct"
  /\ extract_keywords(probe.query) # <<>>
  /\ Len(FindWords(probe.query)) > Len(extract_keywords(probe.query))
  /\ \E t \in Range(extract_keywords(probe.query)) :
        t \notin Range(FindWords(ProbeContent))

\* the item carries a score that is not negative and one of the match types
IsScored(item) ==
  /\ ~RatLess(item.relevance_score, Rat(0, 1))
  /\ item.match_type \in {"direct", "keyword", "semantic"}

\* the number of places of a list that hold `item`
TimesIn(item, list) ==
  Cardinality({ j \in 1..Len(list) : list[j] = item })

\* the same items, each as often
SameItems(output, input) ==
  /\ Len(output) = Len(input)
  /\ \A i \in 1..Len(input) :
        TimesIn(input[i], output) = TimesIn(input[i], input)

\* `output` holds the items of `input`, each as often, with every field but
\* the score and the match type as it was, and every item is scored
Rearranged(output, input) ==
  \A out \in {output}, in \in {input} :
     /\ \A given \in {[i \in 1..Len(in) |-> Unscored(in[i])]},
           kept \in {[j \in 1..Len(out) |-> Unscored(out[j])]} :
           SameItems(kept, given)
     /\ \A j \in 1..Len(out) : IsScored(out[j])

\* C24: sort_results_by_relevance gives the items of its input, none
\* dropped, added or given twice, those that score nothing included, each
\* with a score of at least 0 and a match type among direct, keyword,
\* semantic, and every other field unchanged: so does the final sort on the
\* merged list, and so does the stored list against the providers' outputs.
C24_RankingOnlyAnnotatesAndReorders ==
  /\ pc = "rank" =>
        Rearranged(sort_results_by_relevance(all_results, search_query,
                                             hash_seed),
                   all_results)
  /\ Completed => Rearranged(search_results, RawConcatenation)

\* a stored list with an item that scores nothing, reordered by the sort
C24_Witness ==
  /\ Completed
  /\ \E i \in 1..Len(search_results) :
        search_results[i].relevance_score = Rat(0, 1)
  /\ \E i \in 1..Len(search_results) : search_results[i].match_type = "direct"
  /\ Unscored(search_results[1]) # RawConcatenation[1]

====
